---- MODULE Spec2Model ----
(***************************************************************************)
(* Lead Response API (src/api.py): the follow-up job queue, the dispatcher *)
(* that sends due jobs, and the inbound-response path that cancels them.   *)
(*                                                                         *)
(* The store is one SQLite file.  Every request opens its own connection  *)
(* (db_conn).  Python's sqlite3 opens a transaction implicitly before the  *)
(* first INSERT/UPDATE of a connection and keeps it until commit(); a      *)
(* SELECT opens none.  SQLite admits one writing transaction at a time and *)
(* other connections read the last committed state.  The model therefore   *)
(* keeps the committed tables (leads, jobs), the connection holding the    *)
(* write lock (lock) and each connection's uncommitted writes.  A writer   *)
(* that finds the lock taken waits for it.                                 *)
(***************************************************************************)
EXTENDS Integers, Sequences, FiniteSets, TLC

\* ------------------------------------------------------------------ bounds
\* instants told apart within 24 hours: the resolution of utcnow()
TicksPerUnit == 2
\* the clock stops after this many periods of 24 hours
MaxClock == 3

\* ------------------------------------------------------- program constants
\* timedelta(hours=24) and timedelta(hours=72) of enqueue_followups
Hours24 == 24
Hours72 == 72
\* LIMIT 25 of the dispatcher's selection
BatchLimit == 25

\* [:120] of generate_followup_sequence
MaxMsgLen == 120

\* SQL NULL (last_error)
Null == "<NULL>"
\* None and "" alike: form.get(...) of a missing field, os.getenv(...) or ""
NoText == <<>>
NoLock == "none"

VARIABLES
    clock,    \* the wall clock, in whole periods of 24 hours
    config,   \* the environment: SMS_MODE, TEST_SMS_TO, the TWILIO_* variables
    leads,    \* table leads: lead id -> row (committed state)
    jobs,     \* table followup_jobs: job id -> row (committed state)
    lock,     \* the connection holding SQLite's write lock, or NoLock
    req,      \* lead-creation requests, one per lead id to be assigned
    disp,     \* dispatch_followups invocations
    resp,     \* twilio_inbound_sms invocations
    hist      \* history: what the transport was handed, what the store recorded

vars == <<clock, config, leads, jobs, lock, req, disp, resp, hist>>

\* ------------------------------------------------------------ time, text
\* datetime + timedelta(hours=h)
TimeDelta(h) == (h \div Hours24) * TicksPerUnit

\* datetime.isoformat(): the date-time fields at fixed width, then the
\* fractional part, which is left out when it is zero.  A text is a sequence
\* of character codes ("0" is 48, "." is 46).
IsoFormat(t) ==
    LET whole == t \div TicksPerUnit
        frac  == t % TicksPerUnit
    IN  <<48 + (whole \div 10), 48 + (whole % 10)>>
          \o (IF frac = 0 THEN <<>> ELSE <<46, 48 + frac>>)

\* the instant an isoformat text denotes (used to state properties)
FromIso(s) ==
    ((s[1] - 48) * 10 + (s[2] - 48)) * TicksPerUnit
      + (IF Len(s) > 2 THEN s[4] - 48 ELSE 0)

\* SQLite's comparison of TEXT values (BINARY collation): bytewise, a proper
\* prefix sorts first
RECURSIVE TextLess(_, _)
TextLess(a, b) ==
    IF b = <<>> THEN FALSE
    ELSE IF a = <<>> THEN TRUE
    ELSE IF Head(a) # Head(b) THEN Head(a) < Head(b)
    ELSE TextLess(Tail(a), Tail(b))

TextLE(a, b) == a = b \/ TextLess(a, b)

\* datetime.utcnow(): the instants (in ticks) a read of the clock may return
UtcNow == { clock * TicksPerUnit + f : f \in 0..(TicksPerUnit - 1) }

\* ------------------------------------------------------------ phones
Digits == {"0", "1", "2", "3", "4", "5", "6", "7", "8", "9"}

\* mutant: every phone text passes
is_valid_e164_any(phone) == TRUE

\* re.fullmatch(r"\+\d{10,15}", phone or ""); a phone is a sequence of characters
is_valid_e164(phone) ==
    /\ Len(phone) >= 11
    /\ Len(phone) <= 16
    /\ phone[1] = "+"
    /\ \A i \in 2..Len(phone) : phone[i] \in Digits

PhoneA == <<"+", "1", "8", "0", "1", "5", "5", "5", "0", "0", "0", "1">>
PhoneB == <<"+", "1", "8", "0", "1", "5", "5", "5", "0", "0", "0", "2">>
PhoneTest == <<"+", "1", "8", "0", "1", "5", "5", "5", "0", "0", "9", "9">>
Phones == {PhoneA, PhoneB}

\* ------------------------------------------------------------ configuration
\* TWILIO: whether TWILIO_ACCOUNT_SID, TWILIO_AUTH_TOKEN and TWILIO_FROM_NUMBER
\* are all set
Configs ==
    { [SMS_MODE |-> "live", TEST_SMS_TO |-> NoText, TWILIO |-> TRUE],
      [SMS_MODE |-> "live", TEST_SMS_TO |-> NoText, TWILIO |-> FALSE],
      [SMS_MODE |-> "test", TEST_SMS_TO |-> PhoneTest, TWILIO |-> TRUE],
      [SMS_MODE |-> "test", TEST_SMS_TO |-> NoText, TWILIO |-> TRUE] }

\* a deployment in live mode with the transport configured
LiveConfigs == { c \in Configs : c.SMS_MODE = "live" /\ c.TWILIO }

\* pick_sms_target: the recipient, or NoText where the code raises RuntimeError
pick_sms_target(lead_phone) ==
    IF config.SMS_MODE = "live" THEN lead_phone ELSE config.TEST_SMS_TO

\* ------------------------------------------------------------ the tables
LeadIds == {1, 2}

\* a message text: what it says and how long it is
Msg(s, n) == [s |-> s, n |-> n]

\* the row save_lead_to_db inserts (service, interest and notify_email are
\* stored and never read again; they are left out)
LeadRow(created_utc, name, lead_phone, seq, sms_target, sms_mode) ==
    [ created_utc |-> created_utc,
      name        |-> name,
      lead_phone  |-> lead_phone,
      msg_0       |-> seq.msg_0,
      msg_24h     |-> seq.msg_24h,
      msg_72h     |-> seq.msg_72h,
      sms_target  |-> sms_target,
      sms_mode    |-> sms_mode,
      responded   |-> 0 ]

\* str(uuid.uuid4()) of enqueue_followups: the k-th job id drawn for a lead
JobId(lead_id, k) == (lead_id - 1) * 2 + k

\* mutant: the second follow-up is scheduled 48 hours after the lead
FollowupPlan_48h(base_time_utc, seq) ==
    << [run_at |-> base_time_utc + TimeDelta(Hours24), body |-> seq.msg_24h],
       [run_at |-> base_time_utc + TimeDelta(Hours24 + Hours24), body |-> seq.msg_72h] >>

\* mutant: both follow-ups are scheduled 24 hours after the lead
FollowupPlan_same(base_time_utc, seq) ==
    << [run_at |-> base_time_utc + TimeDelta(Hours24), body |-> seq.msg_24h],
       [run_at |-> base_time_utc + TimeDelta(Hours24), body |-> seq.msg_72h] >>

\* the (run_at, body) list of enqueue_followups
FollowupPlan(base_time_utc, seq) ==
    << [run_at |-> base_time_utc + TimeDelta(Hours24), body |-> seq.msg_24h],
       [run_at |-> base_time_utc + TimeDelta(Hours72), body |-> seq.msg_72h] >>

\* the row one INSERT INTO followup_jobs writes (created_utc is stored and
\* never read again; it is left out)
JobRow(lead_id, run_at, to_number, body) ==
    [ lead_id    |-> lead_id,
      run_at_utc |-> IsoFormat(run_at),
      to_number  |-> to_number,
      body       |-> body,
      status     |-> "pending",
      attempts   |-> 0,
      last_error |-> Null ]

\* a table with the rows of another added
Merge(f, g) ==
    [k \in DOMAIN f \cup DOMAIN g |-> IF k \in DOMAIN g THEN g[k] ELSE f[k]]

Count(f, k) == IF k \in DOMAIN f THEN f[k] ELSE 0
Inc(f, k) == Merge(f, [x \in {k} |-> Count(f, k) + 1])

\* ------------------------------------------------------ selection query
\* mutant: the selection does not look at the lead's responded flag
Eligible_any_lead(J, L, now) ==
    { j \in DOMAIN J :
        /\ J[j].lead_id \in DOMAIN L
        /\ J[j].status = "pending"
        /\ TextLE(J[j].run_at_utc, now) }

\* mutant: the selection finds no job
Eligible_never(J, L, now) == {}

\* mutant: the selection does not look at run_at_utc
Eligible_any_time(J, L, now) ==
    { j \in DOMAIN J :
        /\ J[j].lead_id \in DOMAIN L
        /\ J[j].status = "pending"
        /\ L[J[j].lead_id].responded = 0 }

\* mutant: the selection takes failed jobs again
Eligible_retry(J, L, now) ==
    { j \in DOMAIN J :
        /\ J[j].lead_id \in DOMAIN L
        /\ J[j].status \in {"pending", "failed"}
        /\ L[J[j].lead_id].responded = 0
        /\ TextLE(J[j].run_at_utc, now) }

\* WHERE j.status='pending' AND l.responded = 0 AND j.run_at_utc <= ?
\* over followup_jobs JOIN leads
Eligible(J, L, now) ==
    { j \in DOMAIN J :
        /\ J[j].lead_id \in DOMAIN L
        /\ J[j].status = "pending"
        /\ L[J[j].lead_id].responded = 0
        /\ TextLE(J[j].run_at_utc, now) }

\* mutant: LIMIT n without the ORDER BY
RECURSIVE AnyLimit(_, _, _)
AnyLimit(J, S, n) ==
    IF S = {} \/ n = 0 THEN {<<>>}
    ELSE LET j == CHOOSE x \in S : \A y \in S : x >= y
         IN  { <<j>> \o r : r \in AnyLimit(J, S \ {j}, n - 1) }

\* ORDER BY j.run_at_utc ASC LIMIT n: every order SQLite may return; rows
\* with equal run_at_utc come in any order
RECURSIVE OrderedLimit(_, _, _)
OrderedLimit(J, S, n) ==
    IF S = {} \/ n = 0 THEN {<<>>}
    ELSE LET firsts == { j \in S :
                           \A k \in S : TextLE(J[j].run_at_utc, J[k].run_at_utc) }
         IN  UNION { { <<j>> \o r : r \in OrderedLimit(J, S \ {j}, n - 1) }
                     : j \in firsts }

\* SELECT j.id, j.to_number, j.body, j.attempts
RowOf(J, j) ==
    [id |-> j, to_number |-> J[j].to_number, body |-> J[j].body,
     attempts |-> J[j].attempts]

\* cur.fetchall() of the dispatcher: the possible row lists
SelectDue(J, L, now) ==
    { [i \in 1..Len(ids) |-> RowOf(J, ids[i])]
        : ids \in OrderedLimit(J, Eligible(J, L, now), BatchLimit) }

\* ------------------------------------------------------ message generation
\* str(...).strip()[:120]
Clip(m) == Msg(m.s, IF m.n > MaxMsgLen THEN MaxMsgLen ELSE m.n)

\* the except branch of generate_followup_sequence
FallbackSeq ==
    [ msg_0   |-> Msg("Sorry - quick roof check this week.", 54),
      msg_24h |-> Msg("Adjusters are filling up.", 65),
      msg_72h |-> Msg("Small storm damage turns costly fast.", 72) ]

\* what the model call may do: raise, answer text that is no JSON, answer a
\* JSON object (with all keys or not), answer JSON that is no object
Replies ==
    { [kind |-> "raise", data |-> <<>>],
      [kind |-> "text", data |-> <<>>],
      [kind |-> "array", data |-> <<>>],
      [kind |-> "object",
       data |-> [ msg_0   |-> Msg("Mike - roof checks this week.", 130),
                  msg_24h |-> Msg("Quick follow up, Mike.", 88),
                  msg_72h |-> Msg("Last note, Mike.", 90) ]],
      [kind |-> "object",
       data |-> [ msg_0 |-> Msg("Mike - roof checks this week.", 97) ]] }

\* what a reply is: "raise", "text", "array", "object", or "partial" for an
\* object without all three keys
ReplyLabel(reply) ==
    IF reply.kind = "object" /\ DOMAIN reply.data # {"msg_0", "msg_24h", "msg_72h"}
    THEN "partial" ELSE reply.kind

\* data.get(key, "")
Get(data, key) == IF key \in DOMAIN data THEN data[key] ELSE Msg("", 0)

\* generate_followup_sequence: [ok |-> TRUE, seq |-> ...], or ok = FALSE where
\* the call raises (the model call itself, or data.get on a non-object)
generate_followup_sequence(reply) ==
    CASE reply.kind = "raise" -> [ok |-> FALSE, seq |-> FallbackSeq]
      [] reply.kind = "array" -> [ok |-> FALSE, seq |-> FallbackSeq]
      [] reply.kind = "text"  -> [ok |-> TRUE, seq |-> FallbackSeq]
      [] OTHER ->
           [ok |-> TRUE,
            seq |-> [ msg_0   |-> Clip(Get(reply.data, "msg_0")),
                      msg_24h |-> Clip(Get(reply.data, "msg_24h")),
                      msg_72h |-> Clip(Get(reply.data, "msg_72h")) ]]

\* ------------------------------------------------------------ transport
\* what tw.messages.create may raise
TransportErrors == { [type |-> "TimeoutError", msg |-> ""] }

\* send_sms: the ways a call may end.  Without the TWILIO_* variables it
\* raises RuntimeError before anything is sent; with them the message is
\* handed to Twilio, which accepts it or raises.
send_sms(to_number, body) ==
    IF ~config.TWILIO
    THEN { [ok |-> FALSE, error |-> [type |-> "RuntimeError",
                                    msg |-> "Missing Twilio env vars"]] }
    ELSE { [ok |-> TRUE, error |-> [type |-> "", msg |-> ""]] }
           \cup { [ok |-> FALSE, error |-> e] : e \in TransportErrors }

\* f"{type(e).__name__}: {e}"
ErrorText(e) == e.type \o ": " \o e.msg

\* ------------------------------------------------------------ dispatcher
Dispatchers == {1, 2}

Free == <<NoLock, 0>>

NoRet == [status |-> "none"]

\* the locals of one invocation (now is used by the SELECT alone and by the
\* now_utc of the value returned, which is left out), and the history of the
\* invocation: facts, left and skipped (what the selection saw), calls (what
\* send_sms did for each row)
IdleDisp ==
    [ pc |-> "idle", rows |-> <<>>, i |-> 0, err |-> Null,
      writes |-> <<>>, sent |-> 0, failed |-> 0, ret |-> NoRet,
      facts |-> <<>>, left |-> {}, skipped |-> {}, calls |-> <<>> ]

\* mutant: marking a job sent also clears its body
mark_sent_blank(J, id) ==
    IF id \in DOMAIN J
    THEN [J EXCEPT ![id].status = "sent", ![id].body = Msg("", 0)]
    ELSE J

\* UPDATE followup_jobs SET status='sent' WHERE id=?
mark_sent(J, id) ==
    IF id \in DOMAIN J THEN [J EXCEPT ![id].status = "sent"] ELSE J

\* mutant: a failure is recorded without counting the attempt
mark_failed_uncounted(J, id, attempts, error) ==
    IF id \in DOMAIN J
    THEN [J EXCEPT ![id].status = "failed", ![id].last_error = error]
    ELSE J

\* UPDATE followup_jobs SET status='failed', attempts=?, last_error=? WHERE id=?
mark_failed(J, id, attempts, error) ==
    IF id \in DOMAIN J
    THEN [J EXCEPT ![id].status = "failed",
                   ![id].attempts = attempts,
                   ![id].last_error = error]
    ELSE J

\* the uncommitted UPDATEs of a dispatcher's transaction, applied to the
\* table; the rows of one SELECT have distinct ids, so a pass writes a job
\* at most once
ApplyWrites(J, ws) ==
    [ j \in DOMAIN J |->
        IF \E k \in 1..Len(ws) : ws[k].id = j
        THEN LET w == ws[CHOOSE k \in 1..Len(ws) : ws[k].id = j]
             IN  IF w.op = "sent" THEN mark_sent(J, j)[j]
                 ELSE mark_failed(J, j, w.attempts, w.error)[j]
        ELSE J[j] ]

\* history: the store as it was for each selected job when the selection ran
\* at instant t
FactsOf(rows, t) ==
    [ i \in 1..Len(rows) |->
        [ status    |-> jobs[rows[i].id].status,
          responded |-> leads[jobs[rows[i].id].lead_id].responded,
          due       |-> FromIso(jobs[rows[i].id].run_at_utc) <= t ] ]

\* history: the jobs that were pending and due at instant t and are not among
\* the selected rows, each with its lead's responded flag
LeftOut(rows, t) ==
    { [id |-> j, responded |-> leads[jobs[j].lead_id].responded] :
        j \in { x \in DOMAIN jobs :
                  /\ jobs[x].status = "pending"
                  /\ FromIso(jobs[x].run_at_utc) <= t
                  /\ \A i \in 1..Len(rows) : rows[i].id # x } }

\* history: the jobs a response had canceled before the selection ran at
\* instant t and whose run_at_utc had passed by then
Skipped(t) ==
    { j \in hist.canceled : FromIso(jobs[j].run_at_utc) <= t }

\* dispatch_followups, from utcnow() to cur.fetchall()
dispatch_select(d) ==
    /\ disp[d].pc = "idle"
    /\ \E t \in UtcNow :
       \E rows \in SelectDue(jobs, leads, IsoFormat(t)) :
         disp' = [disp EXCEPT ![d] =
                    [ IdleDisp EXCEPT
                        !.pc = IF rows = <<>> THEN "commit" ELSE "send",
                        !.rows = rows,
                        !.i = 1,
                        !.facts = FactsOf(rows, t),
                        !.left = LeftOut(rows, t),
                        !.skipped = Skipped(t) ]]
    /\ UNCHANGED <<clock, config, leads, jobs, lock, req, resp, hist>>

\* send_sms(to_number, body) of the loop: returns or raises
dispatch_send(d) ==
    /\ disp[d].pc = "send"
    /\ LET row == disp[d].rows[disp[d].i]
       IN  \E out \in send_sms(row.to_number, row.body) :
             IF out.ok
             THEN /\ disp' = [disp EXCEPT ![d].pc = "mark_sent",
                                           ![d].calls = Append(@, "ok")]
                  /\ hist' = [hist EXCEPT !.handed = Inc(@, row.id)]
             ELSE /\ disp' = [disp EXCEPT ![d].pc = "mark_failed",
                                           ![d].err = ErrorText(out.error),
                                           ![d].calls = Append(@, "raised")]
                  /\ hist' = [hist EXCEPT !.handed = Inc(@, row.id),
                                          !.raised = Inc(@, row.id)]
    /\ UNCHANGED <<clock, config, leads, jobs, lock, req, resp>>

\* the UPDATE after send_sms: it opens the connection's transaction if none
\* is open, which needs the write lock
dispatch_mark(d) ==
    /\ disp[d].pc \in {"mark_sent", "mark_failed"}
    /\ lock \in {Free, <<"disp", d>>}
    /\ lock' = <<"disp", d>>
    /\ LET row == disp[d].rows[disp[d].i]
           next == IF disp[d].i = Len(disp[d].rows) THEN "commit" ELSE "send"
       IN  IF disp[d].pc = "mark_sent"
           THEN disp' = [disp EXCEPT
                    ![d].writes = Append(@, [op |-> "sent", id |-> row.id,
                                             attempts |-> 0, error |-> Null]),
                    ![d].sent = @ + 1,
                    ![d].i = @ + 1,
                    ![d].pc = next]
           ELSE disp' = [disp EXCEPT
                    ![d].writes = Append(@, [op |-> "failed", id |-> row.id,
                                             attempts |-> row.attempts + 1,
                                             error |-> disp[d].err]),
                    ![d].failed = @ + 1,
                    ![d].err = Null,
                    ![d].i = @ + 1,
                    ![d].pc = next]
    /\ UNCHANGED <<clock, config, leads, jobs, req, resp, hist>>

\* con.commit(), con.close() and the value returned
dispatch_commit(d) ==
    /\ disp[d].pc = "commit"
    /\ jobs' = ApplyWrites(jobs, disp[d].writes)
    /\ lock' = IF lock = <<"disp", d>> THEN Free ELSE lock
    /\ disp' = [disp EXCEPT
                  ![d].pc = "done",
                  ![d].ret = [ status |-> "ok",
                               sent |-> disp[d].sent, failed |-> disp[d].failed,
                               checked |-> Len(disp[d].rows) ]]
    /\ hist' = [hist EXCEPT !.recorded =
                  @ \cup {disp[d].writes[k].id : k \in 1..Len(disp[d].writes)}]
    /\ UNCHANGED <<clock, config, leads, req, resp>>

\* the response has been delivered; the invocation is over
dispatch_return(d) ==
    /\ disp[d].pc = "done"
    /\ disp' = [disp EXCEPT ![d] = IdleDisp]
    /\ UNCHANGED <<clock, config, leads, jobs, lock, req, resp, hist>>

\* ------------------------------------------------------ inbound response
Responders == {1}

PhoneBad == <<"8", "0", "1", "5", "5", "5", "0", "0", "0", "1">>

\* form.get("From") of an inbound message
InboundFrom == Phones \cup {NoText, PhoneBad}

IdleResp == [pc |-> "idle", phone |-> NoText, lead_ids |-> {}, ret |-> NoRet]

\* SELECT id FROM leads WHERE lead_phone = ? AND responded = 0
unresponded_ids(L, phone) ==
    { l \in DOMAIN L : L[l].lead_phone = phone /\ L[l].responded = 0 }

\* mutant: flagging the leads of one phone clears the flag of the others
set_responded_only(L, phone) ==
    [ l \in DOMAIN L |->
        [L[l] EXCEPT !.responded = IF L[l].lead_phone = phone THEN 1 ELSE 0] ]

\* UPDATE leads SET responded = 1 WHERE lead_phone = ?
set_responded(L, phone) ==
    [ l \in DOMAIN L |->
        IF L[l].lead_phone = phone THEN [L[l] EXCEPT !.responded = 1] ELSE L[l] ]

\* mutant: the response cancels no job
cancel_none(J, lead_ids) == J

\* UPDATE followup_jobs SET status='canceled'
\* WHERE status='pending' AND lead_id IN (...), run only if lead_ids is not empty
cancel_pending(J, lead_ids) ==
    [ j \in DOMAIN J |->
        IF J[j].status = "pending" /\ J[j].lead_id \in lead_ids
        THEN [J[j] EXCEPT !.status = "canceled"]
        ELSE J[j] ]

\* twilio_inbound_sms up to the SELECT of mark_responded_by_phone; a missing
\* or malformed From is ignored
twilio_inbound_sms(r) ==
    /\ resp[r].pc = "idle"
    /\ \E from \in InboundFrom :
         IF from # NoText /\ is_valid_e164(from)
         THEN resp' = [resp EXCEPT ![r] =
                         [ pc |-> "update", phone |-> from,
                           lead_ids |-> unresponded_ids(leads, from),
                           ret |-> NoRet ]]
         ELSE resp' = [resp EXCEPT ![r] =
                         [IdleResp EXCEPT !.pc = "done",
                                          !.ret = [status |-> "ignored"]]]
    /\ UNCHANGED <<clock, config, leads, jobs, lock, req, disp, hist>>

\* mark_responded_by_phone from its first UPDATE to con.commit(): one
\* transaction, which needs the write lock
mark_responded_by_phone(r) ==
    /\ resp[r].pc = "update"
    /\ lock = Free
    /\ leads' = set_responded(leads, resp[r].phone)
    /\ jobs' = cancel_pending(jobs, resp[r].lead_ids)
    /\ hist' = [hist EXCEPT !.canceled =
                  @ \cup { j \in DOMAIN jobs : jobs'[j] # jobs[j] }]
    /\ resp' = [resp EXCEPT
                  ![r].pc = "done",
                  ![r].ret = [ status |-> "received",
                               updated_leads |-> Cardinality(resp[r].lead_ids) ]]
    /\ UNCHANGED <<clock, config, lock, req, disp>>

\* the response has been delivered; the invocation is over
inbound_return(r) ==
    /\ resp[r].pc = "done"
    /\ resp' = [resp EXCEPT ![r] = IdleResp]
    /\ UNCHANGED <<clock, config, leads, jobs, lock, req, disp, hist>>

\* ------------------------------------------------------------ lead names
FirstNames == {"", "Dana"}

\* UPDATE leads SET name = ? WHERE lead_phone = ?
\*   AND (name IS NULL OR name='' OR name='(unknown)')
set_lead_name(L, phone, first_name) ==
    [ l \in DOMAIN L |->
        IF L[l].lead_phone = phone /\ L[l].name \in {"", "(unknown)"}
        THEN [L[l] EXCEPT !.name = first_name]
        ELSE L[l] ]

\* update_lead_name_by_phone: one UPDATE and its commit; an empty first name
\* returns at once.  No handler of the module calls it.
update_lead_name_by_phone ==
    /\ lock = Free
    /\ \E phone \in Phones, first_name \in FirstNames :
         leads' = IF first_name = "" THEN leads
                  ELSE set_lead_name(leads, phone, first_name)
    /\ UNCHANGED <<clock, config, jobs, lock, req, disp, resp, hist>>

\* ------------------------------------------------------------ time passes
Tick ==
    /\ clock < MaxClock
    /\ clock' = clock + 1
    /\ UNCHANGED <<config, leads, jobs, lock, req, disp, resp, hist>>

\* ------------------------------------------------------------ lead creation
\* re.fullmatch(r"[^@\s]+@[^@\s]+\.[^@\s]+", email or ""); an email is a
\* sequence of characters
is_valid_email(email) ==
    /\ \A i \in 1..Len(email) : email[i] # " "
    /\ \E a \in 2..Len(email) :
         /\ email[a] = "@"
         /\ \A i \in 1..Len(email) : email[i] = "@" => i = a
         /\ \E k \in (a + 2)..(Len(email) - 1) : email[k] = "."

\* not s.strip(), for the texts of LeadInputs
IsBlank(s) == s \in {"", " "}

EmailOk == <<"a", "@", "b", ".", "c">>
EmailBad == <<"a", "@", "b">>

\* the request bodies of POST /generate-lead-response
LeadInputs ==
    { [name |-> "Mike", service |-> "Roofing estimate", interest |-> "Storm damage",
       notify_email |-> EmailOk, lead_phone |-> PhoneA],
      [name |-> " ", service |-> "Roofing estimate", interest |-> "Storm damage",
       notify_email |-> EmailOk, lead_phone |-> PhoneA],
      [name |-> "Mike", service |-> "Roofing estimate", interest |-> "Storm damage",
       notify_email |-> EmailBad, lead_phone |-> PhoneA],
      [name |-> "Mike", service |-> "Roofing estimate", interest |-> "Storm damage",
       notify_email |-> EmailOk, lead_phone |-> PhoneBad] }

\* the form fields of POST /twilio/dial-status
DialInputs ==
    { [status |-> "no-answer", caller |-> PhoneA],
      [status |-> "busy", caller |-> PhoneB],
      [status |-> "completed", caller |-> PhoneA],
      [status |-> "no-answer", caller |-> NoText] }

\* the model's answers to the fixed prompt of the missed-call path
DialReplies == { r \in Replies : r.kind = "object" => "msg_72h" \in DOMAIN r.data }

\* the requests: lead id 1 is assigned by a POST /generate-lead-response,
\* lead id 2 by the missed-call path of POST /twilio/dial-status
ApiRequests == {1}
VoiceRequests == {2}

IdleReq ==
    [ pc |-> "idle", created_dt |-> 0, seq |-> FallbackSeq, sms_to |-> NoText,
      tx |-> <<>>, ret |-> NoRet ]

Finished(ret) == [IdleReq EXCEPT !.pc = "done", !.ret = ret]

\* mutant: the rows inserted so far stay in the store when the transaction fails
rollback_keeps(J, tx) ==
    Merge(J, [ j \in {tx[k].id : k \in 1..Len(tx)} |->
                 (CHOOSE w \in {tx[k] : k \in 1..Len(tx)} : w.id = j).row ])

\* the store after a connection is dropped with uncommitted INSERTs: none of
\* them is kept (enqueue_followups commits once, after its loop)
rollback(J, tx) == J

\* con.commit() of enqueue_followups: the inserted rows become visible
commit_rows(J, tx) ==
    Merge(J, [ j \in {tx[k].id : k \in 1..Len(tx)} |->
                 (CHOOSE w \in {tx[k] : k \in 1..Len(tx)} : w.id = j).row ])

\* save_lead_to_db: INSERT INTO leads and commit
save_lead_to_db(L, lead_id, created_utc, name, lead_phone, seq, sms_target, sms_mode) ==
    Merge(L, [ l \in {lead_id} |->
                 LeadRow(created_utc, name, lead_phone, seq, sms_target, sms_mode) ])

\* generate_lead_response from the validation to save_lead_to_db
generate_lead_response(l) ==
    /\ req[l].pc = "idle"
    /\ \E lead \in LeadInputs, reply \in Replies, created_dt \in UtcNow :
         LET gen == generate_followup_sequence(reply)
             sms_to == pick_sms_target(lead.lead_phone)
         IN  IF \/ IsBlank(lead.name) \/ IsBlank(lead.service) \/ IsBlank(lead.interest)
                \/ ~is_valid_email(lead.notify_email)
                \/ ~is_valid_e164(lead.lead_phone)
             THEN /\ req' = [req EXCEPT ![l] = Finished([status |-> 422])]
                  /\ hist' = [hist EXCEPT !.input = Merge(@, [x \in {l} |-> lead])]
                  /\ UNCHANGED leads
             ELSE IF ~gen.ok \/ sms_to = NoText
             THEN /\ req' = [req EXCEPT ![l] = Finished([status |-> 500])]
                  /\ hist' = [hist EXCEPT
                                !.input = Merge(@, [x \in {l} |-> lead]),
                                !.reply = Merge(@, [x \in {l} |-> ReplyLabel(reply)])]
                  /\ UNCHANGED leads
             ELSE /\ lock = Free
                  /\ leads' = save_lead_to_db(leads, l, IsoFormat(created_dt), lead.name,
                                              lead.lead_phone, gen.seq, sms_to,
                                              config.SMS_MODE)
                  /\ hist' = [hist EXCEPT
                                !.input = Merge(@, [x \in {l} |-> lead]),
                                !.reply = Merge(@, [x \in {l} |-> ReplyLabel(reply)])]
                  /\ req' = [req EXCEPT ![l] =
                               [ IdleReq EXCEPT !.pc = "email",
                                                !.created_dt = created_dt,
                                                !.seq = gen.seq,
                                                !.sms_to = sms_to ]]
    /\ UNCHANGED <<clock, config, jobs, lock, disp, resp>>

\* send_email to the owner: returns, or raises and the request ends in HTTP 500
notify_owner(l) ==
    /\ req[l].pc = "email"
    /\ \/ req' = [req EXCEPT ![l].pc = "sms"]
       \/ req' = [req EXCEPT ![l] = Finished([status |-> 500])]
    /\ hist' = [hist EXCEPT !.emailed = @ \cup {l}]
    /\ UNCHANGED <<clock, config, leads, jobs, lock, disp, resp>>

\* twilio_dial_status up to save_lead_to_db.  An answered call or a malformed
\* caller does nothing; generate_followup_sequence and pick_sms_target are
\* called outside the try and their exceptions end the request.
twilio_dial_status(l) ==
    /\ req[l].pc = "idle"
    /\ \E form \in DialInputs, reply \in DialReplies, created_dt \in UtcNow :
         LET gen == generate_followup_sequence(reply)
             sms_to == pick_sms_target(form.caller)
         IN  IF ~( /\ form.status \in {"no-answer", "busy", "failed", "canceled"}
                   /\ form.caller # NoText
                   /\ is_valid_e164(form.caller) )
             THEN /\ req' = [req EXCEPT ![l] = Finished([status |-> 200])]
                  /\ UNCHANGED <<leads, hist>>
             ELSE IF ~gen.ok \/ sms_to = NoText
             THEN /\ req' = [req EXCEPT ![l] = Finished([status |-> 500])]
                  /\ hist' = [hist EXCEPT
                                !.reply = Merge(@, [x \in {l} |-> ReplyLabel(reply)])]
                  /\ UNCHANGED leads
             ELSE /\ lock = Free
                  /\ leads' = save_lead_to_db(leads, l, IsoFormat(created_dt), "(unknown)",
                                              form.caller, gen.seq, sms_to,
                                              config.SMS_MODE)
                  /\ hist' = [hist EXCEPT
                                !.reply = Merge(@, [x \in {l} |-> ReplyLabel(reply)])]
                  /\ req' = [req EXCEPT ![l] =
                               [ IdleReq EXCEPT !.pc = "sms",
                                                !.created_dt = created_dt,
                                                !.seq = gen.seq,
                                                !.sms_to = sms_to ]]
    /\ UNCHANGED <<clock, config, jobs, lock, disp, resp>>

\* mutant: a request whose send_sms raised goes on to enqueue_followups
Failed_goes_on(l, at) ==
    IF at = "send_sms" THEN [req[l] EXCEPT !.pc = "insert"]
    ELSE Finished([status |-> IF l \in ApiRequests THEN 500 ELSE 200, raised |-> at])

\* how a request ends when send_sms or enqueue_followups raises: HTTP 500 from
\* generate_lead_response, a swallowed exception in twilio_dial_status
Failed(l, at) ==
    Finished([status |-> IF l \in ApiRequests THEN 500 ELSE 200, raised |-> at])

\* send_sms(sms_to, seq["msg_0"]): the immediate message
send_immediate(l) ==
    /\ req[l].pc = "sms"
    /\ \E out \in send_sms(req[l].sms_to, req[l].seq.msg_0) :
         IF out.ok
         THEN /\ req' = [req EXCEPT ![l].pc = "insert"]
              /\ hist' = [hist EXCEPT !.immediate =
                            Merge(@, [x \in {l} |-> [to |-> req[l].sms_to,
                                                     body |-> req[l].seq.msg_0]])]
         ELSE /\ req' = [req EXCEPT ![l] = Failed(l, "send_sms")]
              /\ hist' = hist
    /\ UNCHANGED <<clock, config, leads, jobs, lock, disp, resp>>

\* one INSERT of the loop of enqueue_followups; the first opens the
\* transaction, which needs the write lock
enqueue_insert(l) ==
    /\ req[l].pc = "insert"
    /\ lock \in {Free, <<"req", l>>}
    /\ lock' = <<"req", l>>
    /\ LET plan == FollowupPlan(req[l].created_dt, req[l].seq)
           k == Len(req[l].tx) + 1
           row == JobRow(l, plan[k].run_at, req[l].sms_to, plan[k].body)
       IN  req' = [req EXCEPT
                     ![l].tx = Append(@, [id |-> JobId(l, k), row |-> row]),
                     ![l].pc = IF k = Len(plan) THEN "commit" ELSE "insert"]
    /\ UNCHANGED <<clock, config, leads, jobs, disp, resp, hist>>

\* con.commit() of enqueue_followups, and the request returns
enqueue_commit(l) ==
    /\ req[l].pc = "commit"
    /\ jobs' = commit_rows(jobs, req[l].tx)
    /\ lock' = Free
    /\ req' = [req EXCEPT ![l] = Finished([status |-> 200, raised |-> "nothing"])]
    /\ UNCHANGED <<clock, config, leads, disp, resp, hist>>

\* the store fails at a statement of enqueue_followups (an INSERT or the
\* commit): the exception leaves the function, the connection is dropped and
\* its transaction rolled back
enqueue_raises(l) ==
    /\ req[l].pc \in {"insert", "commit"}
    /\ lock \in {Free, <<"req", l>>}
    /\ jobs' = rollback(jobs, req[l].tx)
    /\ lock' = Free
    /\ req' = [req EXCEPT ![l] =
                 Failed(l, IF req[l].pc = "commit" THEN "commit"
                           ELSE IF req[l].tx = <<>> THEN "insert 1" ELSE "insert 2")]
    /\ UNCHANGED <<clock, config, leads, disp, resp, hist>>

\* history: per job the calls of send_sms (handed) and those that raised, the
\* jobs a response canceled, the jobs a dispatcher's commit wrote, and per
\* creation request its body (input), what the model call did (reply), whether
\* send_email was called (emailed) and the immediate message handed to send_sms
NoHist ==
    [ handed |-> <<>>, raised |-> <<>>, canceled |-> {}, recorded |-> {},
      immediate |-> <<>>, input |-> <<>>, reply |-> <<>>, emailed |-> {} ]

\* ------------------------------------ Spec: dispatch against responses
\* The store after a lead creation that completed within the first period: the
\* lead and its two pending follow-ups.  Either nobody answered yet, or the
\* answer came between save_lead_to_db and enqueue_followups of the creation:
\* then the lead is responded and its follow-ups are pending all the same.
SeqOk ==
    generate_followup_sequence(
        CHOOSE r \in Replies : r.kind = "object" /\ "msg_72h" \in DOMAIN r.data).seq

CreatedLead(created, phone, responded) ==
    [ LeadRow(IsoFormat(created), "Mike", phone, SeqOk,
              pick_sms_target(phone), config.SMS_MODE)
        EXCEPT !.responded = responded ]

CreatedJobs(lead_id, created, phone) ==
    LET plan == FollowupPlan(created, SeqOk)
    IN  [ j \in {JobId(lead_id, k) : k \in 1..Len(plan)} |->
            LET k == j - JobId(lead_id, 0)
            IN  JobRow(lead_id, plan[k].run_at, pick_sms_target(phone), plan[k].body) ]

Init ==
    /\ config \in LiveConfigs
    /\ clock = 0
    /\ \E c1 \in UtcNow, answered \in 0..1 :
         /\ leads = [ l \in {1} |-> CreatedLead(c1, PhoneA, answered) ]
         /\ jobs = CreatedJobs(1, c1, PhoneA)
    /\ lock = Free
    /\ req = [l \in LeadIds |-> Finished([status |-> 200, raised |-> "nothing"])]
    /\ disp = [d \in Dispatchers |-> IdleDisp]
    /\ resp = [r \in Responders |-> IdleResp]
    /\ hist = NoHist

Next ==
    \/ Tick
    \/ \E d \in Dispatchers : dispatch_select(d)
    \/ \E d \in Dispatchers : dispatch_send(d)
    \/ \E d \in Dispatchers : dispatch_mark(d)
    \/ \E d \in Dispatchers : dispatch_commit(d)
    \/ \E d \in Dispatchers : dispatch_return(d)
    \/ \E r \in Responders : twilio_inbound_sms(r)
    \/ \E r \in Responders : mark_responded_by_phone(r)
    \/ \E r \in Responders : inbound_return(r)

Spec == Init /\ [][Next]_vars

\* ----------------------------- SpecCreate: lead creation against responses
\* The empty store of init_db; two creation requests and inbound messages,
\* all within the first period of the clock.
InitCreate ==
    /\ config \in Configs
    /\ clock = 0
    /\ leads = <<>>
    /\ jobs = <<>>
    /\ lock = Free
    /\ req = [l \in LeadIds |-> IdleReq]
    /\ disp = [d \in Dispatchers |-> IdleDisp]
    /\ resp = [r \in Responders |-> IdleResp]
    /\ hist = NoHist

NextCreate ==
    \/ \E l \in ApiRequests : generate_lead_response(l)
    \/ \E l \in ApiRequests : notify_owner(l)
    \/ \E l \in VoiceRequests : twilio_dial_status(l)
    \/ \E l \in LeadIds : send_immediate(l)
    \/ \E l \in LeadIds : enqueue_insert(l)
    \/ \E l \in LeadIds : enqueue_commit(l)
    \/ \E l \in LeadIds : enqueue_raises(l)
    \/ \E r \in Responders : twilio_inbound_sms(r)
    \/ \E r \in Responders : mark_responded_by_phone(r)
    \/ \E r \in Responders : inbound_return(r)

SpecCreate == InitCreate /\ [][NextCreate]_vars

\* --------------------------- SpecSelect: the selection on a large store
\* The store after BigLeads lead creations, four days apart, each with its two
\* follow-ups; lead twin + 1 (if twin > 0) was created at the instant lead
\* twin was.  One lead (answered) may have answered: its follow-ups are then
\* canceled, or pending if the answer came before they were enqueued.  A
\* dispatcher runs its selection at any time.
BigLeads == 14

BigCreated(l, twin, f) ==
    (IF twin > 0 /\ l = twin + 1 THEN l - 2 ELSE l - 1)
        * TimeDelta(Hours72 + Hours24) + f

BigStatus(l, answered, raced) ==
    IF l = answered /\ ~raced THEN "canceled" ELSE "pending"

InitSelect ==
    /\ config \in LiveConfigs
    /\ clock \in 0..(4 * BigLeads)
    /\ \E n \in (BigLeads - 2)..BigLeads, twin \in {0, 1, BigLeads - 2},
          f \in 0..(TicksPerUnit - 1), answered \in {0, 2, BigLeads - 1},
          raced \in BOOLEAN :
         /\ answered = 0 => ~raced
         /\ leads = [ l \in 1..n |->
                        CreatedLead(BigCreated(l, twin, f), PhoneA,
                                    IF l = answered THEN 1 ELSE 0) ]
         /\ jobs = [ j \in 1..(2 * n) |->
                       LET l == (j + 1) \div 2
                       IN  [ CreatedJobs(l, BigCreated(l, twin, f), PhoneA)[j]
                               EXCEPT !.status = BigStatus(l, answered, raced) ] ]
    /\ lock = Free
    /\ req = [l \in LeadIds |-> Finished([status |-> 200, raised |-> "nothing"])]
    /\ disp = [d \in Dispatchers |-> IdleDisp]
    /\ resp = [r \in Responders |-> IdleResp]
    /\ hist = NoHist

NextSelect == dispatch_select(1)

SpecSelect == InitSelect /\ [][NextSelect]_vars

\* ------------------- SpecRespond: inbound messages against a lead creation
\* The store holds lead 2 and its two follow-ups; the lead has answered or
\* not.  Two inbound messages are handled (twilio_inbound_sms runs on the
\* event loop of a server process; DB_PATH may be shared by several
\* processes) while POST /generate-lead-response, which runs on a worker
\* thread, creates lead 1.
Callers == {1, 2}

InitRespond ==
    /\ config \in LiveConfigs
    /\ clock = 0
    /\ \E c2 \in UtcNow, phone \in Phones, answered \in 0..1 :
         /\ leads = [ l \in {2} |-> CreatedLead(c2, phone, answered) ]
         /\ jobs = [ j \in {JobId(2, 1), JobId(2, 2)} |->
                       [ CreatedJobs(2, c2, phone)[j]
                           EXCEPT !.status = IF answered = 1 THEN "canceled"
                                             ELSE "pending" ] ]
    /\ lock = Free
    /\ req = [ l \in LeadIds |->
                 IF l \in ApiRequests THEN IdleReq
                 ELSE Finished([status |-> 200, raised |-> "nothing"]) ]
    /\ disp = [d \in Dispatchers |-> IdleDisp]
    /\ resp = [r \in Callers |-> IdleResp]
    /\ hist = NoHist

NextRespond ==
    \/ \E r \in Callers : twilio_inbound_sms(r)
    \/ \E r \in Callers : mark_responded_by_phone(r)
    \/ \E r \in Callers : inbound_return(r)
    \/ \E l \in ApiRequests : generate_lead_response(l)
    \/ \E l \in ApiRequests : notify_owner(l)
    \/ \E l \in ApiRequests : send_immediate(l)
    \/ \E l \in ApiRequests : enqueue_insert(l)
    \/ \E l \in ApiRequests : enqueue_commit(l)
    \/ \E l \in ApiRequests : enqueue_raises(l)

SpecRespond == InitRespond /\ [][NextRespond]_vars

\* ------------------------------ SpecStore: every operation on the store
\* The store holds lead 2, created by a missed call from PhoneB at instant 0,
\* and its two follow-ups, now past their run_at_utc; the lead has answered or
\* not.  One dispatcher pass at a time, inbound messages, one
\* POST /generate-lead-response and update_lead_name_by_phone act on it.
InitStore ==
    /\ config \in LiveConfigs
    /\ clock = MaxClock
    /\ \E answered \in 0..1 :
         /\ leads = [ l \in {2} |->
                        [CreatedLead(0, PhoneB, answered) EXCEPT !.name = "(unknown)"] ]
         /\ jobs = [ j \in {JobId(2, 1), JobId(2, 2)} |->
                       [ CreatedJobs(2, 0, PhoneB)[j]
                           EXCEPT !.status = IF answered = 1 THEN "canceled"
                                             ELSE "pending" ] ]
    /\ lock = Free
    /\ req = [ l \in LeadIds |->
                 IF l \in ApiRequests THEN IdleReq
                 ELSE Finished([status |-> 200, raised |-> "nothing"]) ]
    /\ disp = [d \in Dispatchers |-> IdleDisp]
    /\ resp = [r \in Responders |-> IdleResp]
    /\ hist = NoHist

NextStore ==
    \/ dispatch_select(1)
    \/ dispatch_send(1)
    \/ dispatch_mark(1)
    \/ dispatch_commit(1)
    \/ dispatch_return(1)
    \/ \E r \in Responders : twilio_inbound_sms(r)
    \/ \E r \in Responders : mark_responded_by_phone(r)
    \/ \E r \in Responders : inbound_return(r)
    \/ \E l \in ApiRequests : generate_lead_response(l)
    \/ \E l \in ApiRequests : notify_owner(l)
    \/ \E l \in ApiRequests : send_immediate(l)
    \/ \E l \in ApiRequests : enqueue_insert(l)
    \/ \E l \in ApiRequests : enqueue_commit(l)
    \/ \E l \in ApiRequests : enqueue_raises(l)
    \/ update_lead_name_by_phone

SpecStore == InitStore /\ [][NextStore]_vars

\* ------------------------------------ SpecDrain: a backlog and the cron
\* The store after BigLeads - 1 or BigLeads lead creations four days apart,
\* all follow-ups past their run_at_utc and pending: more than BatchLimit.
\* Lead 2 may have answered before its follow-ups were enqueued.  The
\* TWILIO_* variables are not set, so every send_sms raises.  The dispatcher
\* is invoked again and again and each of its steps is eventually taken;
\* inbound messages arrive at any time.
InitDrain ==
    /\ config \in {c \in Configs : c.SMS_MODE = "live" /\ ~c.TWILIO}
    /\ clock = 4 * BigLeads
    /\ \E n \in (BigLeads - 1)..BigLeads, answered \in {0, 2} :
         /\ leads = [ l \in 1..n |->
                        CreatedLead(BigCreated(l, 0, 0), PhoneA,
                                    IF l = answered THEN 1 ELSE 0) ]
         /\ jobs = [ j \in 1..(2 * n) |->
                       LET l == (j + 1) \div 2
                       IN  CreatedJobs(l, BigCreated(l, 0, 0), PhoneA)[j] ]
    /\ lock = Free
    /\ req = [l \in LeadIds |-> Finished([status |-> 200, raised |-> "nothing"])]
    /\ disp = [d \in Dispatchers |-> IdleDisp]
    /\ resp = [r \in Responders |-> IdleResp]
    /\ hist = NoHist

DispatcherStep ==
    \/ dispatch_select(1)
    \/ dispatch_send(1)
    \/ dispatch_mark(1)
    \/ dispatch_commit(1)
    \/ dispatch_return(1)

NextDrain ==
    \/ DispatcherStep
    \/ \E r \in Responders : twilio_inbound_sms(r)
    \/ \E r \in Responders : mark_responded_by_phone(r)
    \/ \E r \in Responders : inbound_return(r)

SpecDrain == InitDrain /\ [][NextDrain]_vars /\ WF_vars(DispatcherStep)

\* ======================================================== claims under Spec
InFlight(d) == disp[d].pc \in {"send", "mark_sent", "mark_failed", "commit"}

Commits(d) == disp[d].pc = "commit" /\ disp'[d].pc = "done"

RowIds(d) == { disp[d].rows[k].id : k \in 1..Len(disp[d].rows) }

\* C1: when a job a dispatcher selected has been canceled before the
\* dispatcher's write reaches the store, the write changes nothing: the job
\* stays canceled, attempts and last_error as they were.
C1_WriteToCanceledIsNoOp ==
    [][ \A d \in Dispatchers :
          Commits(d) =>
            \A j \in RowIds(d) :
              jobs[j].status = "canceled" => jobs'[j] = jobs[j] ]_vars

\* C2: a job whose status is sent, failed or canceled never changes status
\* again, and every new job is pending.
C2_TerminalStatusesAreFinal ==
    [][ /\ \A j \in DOMAIN jobs :
             jobs[j].status \in {"sent", "failed", "canceled"}
               => jobs'[j].status = jobs[j].status
        /\ \A j \in DOMAIN jobs' \ DOMAIN jobs : jobs'[j].status = "pending" ]_vars

\* C3: a pass whose selection ran when a lead was already responded neither
\* hands a job of that lead to the transport nor marks it sent.
C3_NoSendAfterResponded ==
    [][ \A d \in Dispatchers :
          /\ disp[d].pc = "send" /\ disp'[d].pc # "send"
               => disp[d].facts[disp[d].i].responded = 0
          /\ Commits(d)
               => \A k \in 1..Len(disp[d].rows) :
                    jobs'[disp[d].rows[k].id] # jobs[disp[d].rows[k].id]
                      => disp[d].facts[k].responded = 0 ]_vars

\* C3 witness: a pass has run while a due, pending job of a responded lead was
\* in the store, and has left it out.
C3_Witness ==
    \E d \in Dispatchers :
      /\ disp[d].pc = "done"
      /\ \E x \in disp[d].left :
           /\ x.responded = 1
           /\ jobs[x.id].status = "pending"
           /\ Count(hist.handed, x.id) = 0

\* C4: for a job selected by a pass and targeted by a cancellation, the store
\* never records both a send outcome and a cancellation, and the job is not
\* pending once either is recorded.
C4_RaceSafety ==
    \A j \in DOMAIN jobs :
      /\ ~(j \in hist.canceled /\ j \in hist.recorded)
      /\ j \in hist.canceled \cup hist.recorded => jobs[j].status # "pending"

\* C5: every job a pass selected was pending, due and of an unresponded lead
\* when the selection ran; the transport is handed selected jobs only.
C5_SelectionIsEligible ==
    \A d \in Dispatchers :
      /\ Len(disp[d].facts) = Len(disp[d].rows)
      /\ Len(disp[d].calls) <= Len(disp[d].rows)
      /\ \A k \in 1..Len(disp[d].rows) :
           /\ disp[d].facts[k].status = "pending"
           /\ disp[d].facts[k].responded = 0
           /\ disp[d].facts[k].due

\* C5 witness: a pass is sending a job it selected while the lead's later job,
\* not yet due, was left in the store
C5_Witness ==
    \E d \in Dispatchers :
      /\ disp[d].pc = "mark_sent"
      /\ Len(disp[d].rows) = 1
      /\ \E j \in DOMAIN jobs \ RowIds(d) :
           /\ jobs[j].status = "pending"
           /\ leads[jobs[j].lead_id].responded = 0
           /\ \A x \in disp[d].left : x.id # j

\* C7: when a pass commits, every selected job has been handed to the
\* transport; a job whose call returned is sent, a job whose call raised is
\* failed with attempts one more than selected and a non-empty last_error; the
\* counts returned add up to the number of selected jobs.
C7_PartialFailure ==
    [][ \A d \in Dispatchers :
          Commits(d) =>
            /\ Len(disp[d].calls) = Len(disp[d].rows)
            /\ \A k \in 1..Len(disp[d].rows) :
                 LET row == disp[d].rows[k]
                 IN  IF disp[d].calls[k] = "ok"
                     THEN jobs'[row.id].status = "sent"
                     ELSE /\ jobs'[row.id].status = "failed"
                          /\ jobs'[row.id].attempts = row.attempts + 1
                          /\ jobs'[row.id].last_error \notin {Null, ""}
            /\ disp'[d].ret.status = "ok"
            /\ disp'[d].ret.checked = Len(disp[d].rows)
            /\ disp'[d].ret.sent + disp'[d].ret.failed = disp'[d].ret.checked
            /\ disp'[d].ret.failed
                 = Cardinality({k \in 1..Len(disp[d].calls) : disp[d].calls[k] = "raised"}) ]_vars

\* C7 witness: a pass has committed in which the first send raised and the
\* second went through
C7_Witness ==
    \E d \in Dispatchers :
      /\ disp[d].pc = "done"
      /\ disp[d].calls = <<"raised", "ok">>
      /\ disp[d].ret.failed = 1
      /\ disp[d].ret.sent = 1
      /\ \A k \in 1..2 :
           jobs[disp[d].rows[k].id].status = (IF k = 1 THEN "failed" ELSE "sent")

\* C12: when mark_responded_by_phone completes, every pending job of the
\* leads it found unresponded is canceled and every other job is as it was;
\* no selection run afterwards returns, and no pass started afterwards sends,
\* a job so canceled or any job of a lead that has responded.
C12_CanceledAndNeverSelected ==
    [][ /\ \A r \in Responders :
             resp[r].pc = "update" /\ resp'[r].pc = "done"
             => \A j \in DOMAIN jobs :
                  IF jobs[j].status = "pending" /\ jobs[j].lead_id \in resp[r].lead_ids
                  THEN jobs'[j] = [jobs[j] EXCEPT !.status = "canceled"]
                  ELSE jobs'[j] = jobs[j]
        /\ \A d \in Dispatchers :
             disp[d].pc = "idle" /\ disp'[d].pc # "idle"
             => \A k \in 1..Len(disp'[d].rows) :
                  /\ disp'[d].rows[k].id \notin hist.canceled
                  /\ leads[jobs[disp'[d].rows[k].id].lead_id].responded = 0
        /\ \A d \in Dispatchers :
             disp[d].pc = "send" /\ disp'[d].pc # "send"
             => disp[d].rows[disp[d].i].id \notin disp[d].skipped ]_vars

\* C12 witness: a pass that started after the response was recorded, when both
\* canceled follow-ups were past their run_at_utc, selected nothing
C12_Witness ==
    \E d \in Dispatchers :
      /\ disp[d].pc = "done"
      /\ disp[d].rows = <<>>
      /\ Cardinality(disp[d].skipped) = 2
      /\ \A j \in disp[d].skipped : jobs[j].status = "canceled"
      /\ \A j \in disp[d].skipped : Count(hist.handed, j) = 0

\* C17: in every state a job with a last_error has status failed.
C17_LastErrorOnlyOnFailed ==
    \A j \in DOMAIN jobs : jobs[j].last_error # Null => jobs[j].status = "failed"

\* no dispatcher pass is between its selection and its commit
Quiet == \A d \in Dispatchers : disp[d].pc \in {"idle", "done"}

\* C18: attempts never decreases, and whenever every pass has committed it
\* equals the number of send_sms calls that raised for the job.
C18_AttemptsCountFailures ==
    [][ /\ \A j \in DOMAIN jobs : jobs'[j].attempts >= jobs[j].attempts
        /\ Quiet' => \A j \in DOMAIN jobs' :
                       jobs'[j].attempts = Count(hist'.raised, j) ]_vars

\* ================================================== claims under SpecCreate
JobsOf(J, l) == { j \in DOMAIN J : J[j].lead_id = l }

Idle == \A l \in LeadIds : req[l].pc \in {"idle", "done"}

\* a follow-up of lead l in table J, due the given number of days after the
\* lead was created, with the given body, as enqueued
Followup(J, l, days, body, to) ==
    \E j \in JobsOf(J, l) :
      /\ FromIso(J[j].run_at_utc) = FromIso(leads[l].created_utc) + days * TicksPerUnit
      /\ J[j].body = body
      /\ J[j].to_number = to
      /\ J[j].status = "pending"
      /\ J[j].attempts = 0
      /\ J[j].last_error = Null

\* C8: when a lead creation completes successfully, the lead has exactly two
\* follow-ups, due 24 and 72 hours after created_at with bodies msg_24h and
\* msg_72h, pending with attempts 0; msg_0 was sent at once and is no job.
C8_TwoFollowupsPerLead ==
    [][ \A l \in LeadIds :
          /\ req[l].pc # "done" /\ req'[l].pc = "done"
          /\ req'[l].ret = [status |-> 200, raised |-> "nothing"]
          => /\ Cardinality(JobsOf(jobs', l)) = 2
             /\ Followup(jobs', l, 1, leads[l].msg_24h, leads[l].sms_target)
             /\ Followup(jobs', l, 3, leads[l].msg_72h, leads[l].sms_target)
             /\ l \in DOMAIN hist.immediate
             /\ hist.immediate[l] = [to |-> leads[l].sms_target, body |-> leads[l].msg_0]
             /\ JobsOf(jobs, l) = {} ]_vars

\* C8 witness: both creation paths have completed with their follow-ups
\* enqueued, one lead created at a whole instant and one not
C8_Witness ==
    /\ \A l \in LeadIds :
         /\ req[l].pc = "done"
         /\ req[l].ret = [status |-> 200, raised |-> "nothing"]
         /\ Cardinality(JobsOf(jobs, l)) = 2
    /\ \E l \in LeadIds : Len(leads[l].created_utc) = 2
    /\ \E l \in LeadIds : Len(leads[l].created_utc) > 2

\* C9: whenever no creation request is in progress, every stored lead has
\* exactly one follow-up job for msg_24h and one for msg_72h.
C9_EveryLeadHasItsFollowups ==
    Idle =>
      \A l \in DOMAIN leads :
        /\ Cardinality(JobsOf(jobs, l)) = 2
        /\ \E j \in JobsOf(jobs, l) : jobs[j].body = leads[l].msg_24h
        /\ \E j \in JobsOf(jobs, l) : jobs[j].body = leads[l].msg_72h

\* C10: in every committed state of the store a lead has no follow-up job or
\* two, never one.
C10_EnqueueAllOrNothing ==
    \A l \in LeadIds : Cardinality(JobsOf(jobs, l)) \in {0, 2}

\* C10 witness: the store failed at the second INSERT of enqueue_followups and
\* the lead is left without any follow-up
C10_Witness ==
    \E l \in LeadIds :
      /\ req[l].pc = "done"
      /\ req[l].ret.status # 422
      /\ req[l].ret = Failed(l, "insert 2").ret
      /\ l \in DOMAIN leads
      /\ JobsOf(jobs, l) = {}

\* the model call of request l did not give a JSON object with all three keys
GenerationFailed(l) == l \in DOMAIN hist.reply /\ hist.reply[l] # "object"

Says(m) == m.n > 0

\* C14: when the message generator fails (the model call raises, its output
\* is no JSON object, or keys are missing) the lead is persisted with the
\* fallback sequence, whose three messages are not empty, and the follow-ups
\* enqueued carry those messages.
C14_FallbackOnGenerationFailure ==
    \A l \in LeadIds :
      GenerationFailed(l) /\ pick_sms_target(PhoneA) # NoText
      => /\ l \in DOMAIN leads
         /\ leads[l].msg_0 = FallbackSeq.msg_0 /\ Says(leads[l].msg_0)
         /\ leads[l].msg_24h = FallbackSeq.msg_24h /\ Says(leads[l].msg_24h)
         /\ leads[l].msg_72h = FallbackSeq.msg_72h /\ Says(leads[l].msg_72h)
         /\ \A j \in JobsOf(jobs, l) :
              Says(jobs[j].body) /\ jobs[j].body \in {FallbackSeq.msg_24h, FallbackSeq.msg_72h}

\* a request body the validation must reject: a blank name, an email without
\* a dot after the @, a phone without the + and with ten digits only
BadInput(lead) ==
    \/ lead.name = " "
    \/ lead.notify_email = <<"a", "@", "b">>
    \/ lead.lead_phone[1] # "+"

\* C15: a creation request whose body fails validation ends in 422 and has no
\* effect: leads and followup_jobs are unchanged, the generator is not called,
\* and no email or SMS is sent.
C15_ValidationHasNoEffects ==
    [][ \A l \in ApiRequests :
          req[l].pc = "idle" /\ req'[l].pc # "idle" /\ BadInput(hist'.input[l])
          => /\ req'[l] = Finished([status |-> 422])
             /\ leads' = leads
             /\ jobs' = jobs
             /\ lock' = lock
             /\ hist' = [hist EXCEPT !.input = hist'.input] ]_vars

\* C15 witness: the request with the malformed phone was rejected while the
\* store held a lead and its follow-ups, which are still there
C15_Witness ==
    \E l \in ApiRequests :
      /\ req[l] = Finished([status |-> 422])
      /\ hist.input[l].lead_phone = PhoneBad
      /\ l \notin DOMAIN leads
      /\ DOMAIN leads # {}
      /\ DOMAIN jobs # {}

\* the nominal offset of a job: its run_at_utc less its lead's created_utc
Offset(j) == FromIso(jobs[j].run_at_utc) - FromIso(leads[jobs[j].lead_id].created_utc)

\* C19: every job belongs to a stored lead, and no two jobs of one lead have
\* the same offset: a lead has at most one +24h and at most one +72h job.
C19_OneJobPerOffset ==
    /\ \A j \in DOMAIN jobs : jobs[j].lead_id \in DOMAIN leads
    /\ \A j \in DOMAIN jobs : Offset(j) \in {TimeDelta(Hours24), TimeDelta(Hours72)}
    /\ \A j, k \in DOMAIN jobs :
         j # k /\ jobs[j].lead_id = jobs[k].lead_id => Offset(j) # Offset(k)

\* C19 witness: two leads created at the same instant, each with its two
\* follow-ups
C19_Witness ==
    /\ DOMAIN leads = LeadIds
    /\ leads[1].created_utc = leads[2].created_utc
    /\ \A l \in LeadIds : Cardinality(JobsOf(jobs, l)) = 2
    /\ \E j, k \in DOMAIN jobs : jobs[j].lead_id # jobs[k].lead_id /\ Offset(j) = Offset(k)

\* the creation request of lead l ended because its immediate send_sms raised
ImmediateRaised(l) ==
    /\ req[l].pc = "done"
    /\ "raised" \in DOMAIN req[l].ret
    /\ req[l].ret.raised = "send_sms"

\* C24: a lead has follow-up jobs only if send_sms returned for its msg_0
\* before; when the immediate send_sms raised, on either creation path, the
\* lead is persisted and has no follow-up job.
C24_NoFollowupsWithoutImmediate ==
    \A l \in LeadIds :
      /\ JobsOf(jobs, l) # {} =>
           /\ l \in DOMAIN hist.immediate
           /\ hist.immediate[l].body = leads[l].msg_0
      /\ ImmediateRaised(l) =>
           /\ l \in DOMAIN leads
           /\ JobsOf(jobs, l) = {}
           /\ l \notin DOMAIN hist.immediate

\* C24 witness: the immediate send_sms raised in POST /generate-lead-response
\* and in the missed-call webhook; both leads are stored, neither has a job
C24_Witness ==
    /\ \A l \in ApiRequests \cup VoiceRequests : ImmediateRaised(l)
    /\ DOMAIN leads = ApiRequests \cup VoiceRequests
    /\ jobs = <<>>

\* ------------------------------------------- send order, under Spec
\* the follow-up of lead l scheduled h hours after the lead's creation
JobAt(l, h) ==
    { j \in JobsOf(jobs, l) : l \in DOMAIN leads /\ Offset(j) = TimeDelta(h) }

\* dispatcher d hands job j to send_sms in this step
Hands(d, j) ==
    /\ disp[d].pc = "send"
    /\ disp[d].rows[disp[d].i].id = j
    /\ disp'[d].pc \in {"mark_sent", "mark_failed"}

\* C23: when a pass hands a lead's +72h follow-up to send_sms, the lead's +24h
\* follow-up is no longer pending for that pass: it has been handed to
\* send_sms before, by this pass or an earlier one, or has been canceled.
C23_FirstThe24hThenThe72h ==
    [][ \A d \in Dispatchers, l \in LeadIds :
          \A j72 \in JobAt(l, Hours72), j24 \in JobAt(l, Hours24) :
            Hands(d, j72) =>
              /\ ApplyWrites(jobs, disp[d].writes)[j24].status # "pending"
              /\ \/ Count(hist.handed, j24) > 0
                 \/ jobs[j24].status = "canceled" ]_vars

\* C23 witness: a pass selected the +24h follow-up alone, its send_sms raised
\* and the failure was committed; a later pass selected the +72h follow-up
\* alone and has handed it to send_sms
C23_Witness ==
    \E d \in Dispatchers, j72 \in JobAt(1, Hours72), j24 \in JobAt(1, Hours24) :
      /\ jobs[j24].status = "failed"
      /\ Count(hist.handed, j24) = 1
      /\ Count(hist.handed, j72) = 1
      /\ disp[d].pc = "mark_sent"
      /\ Len(disp[d].rows) = 1
      /\ disp[d].rows[1].id = j72

\* no creation request, response or dispatcher pass is in progress
AtRest ==
    /\ Idle
    /\ Quiet
    /\ \A r \in DOMAIN resp : resp[r].pc \in {"idle", "done"}

\* C21: whenever no operation is in progress, no lead that has responded has
\* a pending follow-up, also when the response came between the commit of
\* save_lead_to_db and the commit of enqueue_followups.
C21_NoPendingAfterResponse ==
    AtRest =>
      \A j \in DOMAIN jobs :
        jobs[j].status = "pending" => leads[jobs[j].lead_id].responded = 0

\* ================================================= claims under SpecRespond
\* the leads a step flags: responded goes from 0 to 1
NewlyFlagged == { l \in DOMAIN leads : leads[l].responded = 0 /\ leads'[l].responded = 1 }

\* C11: every call of mark_responded_by_phone returns the number of leads
\* whose responded flag that call changed from false to true, also when two
\* calls for the same phone overlap.
C11_ReturnsNewlyFlagged ==
    [][ \A r \in Callers :
          resp[r].pc = "update" /\ resp'[r].pc = "done"
          => resp'[r].ret.updated_leads = Cardinality(NewlyFlagged) ]_vars

\* =================================================== claims under SpecStore
\* C13: a lead is created with responded = 0, and no step of any operation
\* changes a lead's responded from 1 back to 0 (or removes the lead).
C13_RespondedIsMonotonic ==
    [][ /\ \A l \in DOMAIN leads :
             /\ l \in DOMAIN leads'
             /\ leads[l].responded = 1 => leads'[l].responded = 1
        /\ \A l \in DOMAIN leads' \ DOMAIN leads : leads'[l].responded = 0 ]_vars

\* C13 witness: lead 2 has answered and has since been renamed, a dispatcher
\* pass has committed, and lead 1 has been created and has not answered
C13_Witness ==
    /\ leads[2].responded = 1
    /\ leads[2].name = "Dana"
    /\ hist.canceled # {}
    /\ disp[1].pc = "done"
    /\ 1 \in DOMAIN leads
    /\ leads[1].responded = 0
    /\ req[1].pc = "done"

\* a pass of dispatcher d runs its SELECT in this step
Selects(d) == disp[d].pc = "idle" /\ disp'[d].pc # "idle"

\* C22: with one dispatcher pass at a time, each run to its commit, no job is
\* handed to send_sms more than once; a job that is sent or failed is in no
\* later selection, is not handed again and keeps its row: failed jobs are not
\* retried.
C22_HandedAtMostOnce ==
    [][ \A j \in DOMAIN jobs :
          /\ Count(hist'.handed, j) <= 1
          /\ jobs[j].status \in {"sent", "failed"} =>
               /\ Selects(1) => j \notin RowIds(1)'
               /\ Count(hist'.handed, j) = Count(hist.handed, j)
               /\ jobs'[j] = jobs[j] ]_vars

\* C22 witness: lead 2 has not answered, one of its due follow-ups is sent and
\* the other failed, each handed once, and a later pass has selected nothing
\* and committed
C22_Witness ==
    /\ leads[2].responded = 0
    /\ \E j \in JobsOf(jobs, 2) : jobs[j].status = "sent"
    /\ \E j \in JobsOf(jobs, 2) : jobs[j].status = "failed"
    /\ \A j \in JobsOf(jobs, 2) : Count(hist.handed, j) = 1
    /\ disp[1].pc = "done"
    /\ disp[1].ret.checked = 0

\* =================================================== claims under SpecDrain
\* job j is pending and past its run_at_utc and its lead has not responded
Waiting(j) ==
    /\ jobs[j].status = "pending"
    /\ FromIso(jobs[j].run_at_utc) <= clock * TicksPerUnit
    /\ leads[jobs[j].lead_id].responded = 0

\* job j has been attempted and is sent or failed, or its lead has responded
Settled(j) ==
    \/ jobs[j].status \in {"sent", "failed"}
    \/ leads[jobs[j].lead_id].responded = 1

\* C16: a pass writes at most BatchLimit jobs and leaves every job it did not
\* select as it was; and under repeated invocations there comes a time from
\* which on every job is sent or failed unless its lead has responded: no job
\* of a lead that never responds stays pending.
C16_BacklogDrains ==
    /\ [][ Commits(1) =>
             /\ Len(disp[1].rows) <= BatchLimit
             /\ \A j \in DOMAIN jobs \ RowIds(1) : jobs'[j] = jobs[j] ]_vars
    /\ <>[](\A j \in DOMAIN jobs : Settled(j))

\* C16 witness: a second pass has finished the backlog the first pass, which
\* was full, left over; no lead has responded since
C16_Witness ==
    /\ disp[1].pc = "done"
    /\ disp[1].ret.checked \in 1..(BatchLimit - 1)
    /\ Cardinality(hist.recorded) > BatchLimit
    /\ hist.canceled = {}
    /\ \A j \in DOMAIN jobs : ~Waiting(j)
    /\ \E j \in DOMAIN jobs : jobs[j].status = "failed" /\ jobs[j].attempts = 1

\* C20: no step removes a job or changes its lead_id, run_at_utc, to_number or
\* body; the steps of the dispatcher and of a response change nothing of a
\* job but status, attempts and last_error.
C20_PayloadIsFixed ==
    [][ \A j \in DOMAIN jobs :
          /\ j \in DOMAIN jobs'
          /\ jobs'[j].lead_id = jobs[j].lead_id
          /\ jobs'[j].run_at_utc = jobs[j].run_at_utc
          /\ jobs'[j].to_number = jobs[j].to_number
          /\ jobs'[j].body = jobs[j].body
          /\ DOMAIN jobs'[j] = DOMAIN jobs[j] ]_vars

\* C20 witness: the dispatcher has written both follow-ups of lead 2, one of
\* them failed, the lead has been renamed and another lead created with its
\* own follow-ups
C20_Witness ==
    /\ \E j \in JobsOf(jobs, 2) : jobs[j].status = "sent"
    /\ \E j \in JobsOf(jobs, 2) : jobs[j].status = "failed" /\ jobs[j].attempts = 1
    /\ leads[2].name = "Dana"
    /\ Cardinality(JobsOf(jobs, 1)) = 2

\* ================================================== claims under SpecSelect
RunAt(j) == FromIso(jobs[j].run_at_utc)

\* C6: a selection holds at most BatchLimit jobs in ascending order of run_at,
\* and an eligible job is left out only if the batch is full and holds no job
\* with a later run_at.
C6_EarliestFirst ==
    \A d \in Dispatchers :
      LET rows == disp[d].rows
      IN  /\ Len(rows) <= BatchLimit
          /\ \A k \in 1..(Len(rows) - 1) : RunAt(rows[k].id) <= RunAt(rows[k + 1].id)
          /\ \A x \in disp[d].left :
               x.responded = 0 =>
                 /\ Len(rows) = BatchLimit
                 /\ \A k \in 1..Len(rows) : RunAt(rows[k].id) <= RunAt(x.id)

\* C6 witness: a full batch has been selected and eligible jobs were left out,
\* one of them due at the same instant as the last selected job
C6_Witness ==
    \E d \in Dispatchers :
      /\ Len(disp[d].rows) = BatchLimit
      /\ \E x \in disp[d].left :
           /\ x.responded = 0
           /\ RunAt(x.id) = RunAt(disp[d].rows[BatchLimit].id)
      /\ \E x \in disp[d].left :
           /\ x.responded = 0
           /\ RunAt(x.id) > RunAt(disp[d].rows[BatchLimit].id)

====
